---- MODULE Spec2Model ----
(***************************************************************************)
(* Contact page of the portfolio site: the field validator, the form       *)
(* state (formData, errors, submission) and the asynchronous submission    *)
(* with its auto-hide timer, as implemented in src/pages/Contact.tsx; and  *)
(* the useTheme hook: the isDarkMode flag, the "theme-preference" key of   *)
(* localStorage and the dark/light class of the document root.             *)
(*                                                                         *)
(* A string value is a sequence of one-character strings, so that trim(),  *)
(* length and the email regular expression are computed on its characters. *)
(***************************************************************************)
EXTENDS Integers, Sequences, FiniteSets

VARIABLES formData, errors, submission, requests, timers,
          vName, vValue, vResult,
          isDarkMode, storage, classList, storageMode, hook, call, prevCall

vars == <<formData, errors, submission, requests, timers, vName, vValue, vResult,
          isDarkMode, storage, classList, storageMode, hook, call, prevCall>>

formVars == <<formData, errors, submission, requests, timers>>

validatorVars == <<vName, vValue, vResult>>

themeVars == <<isDarkMode, storage, classList, storageMode, hook, call, prevCall>>

----------------------------------------------------------------------------
(* Bounds of the model *)

\* requests in flight plus auto-hide timers not yet fired
MaxOutstanding == 2

\* longest value given to validateField for name, subject and message
MaxTextLen == 11

\* longest value given to validateField for email
MaxEmailLen == 6

----------------------------------------------------------------------------
(* Strings *)

\* the characters matched by \s and removed by String.prototype.trim
WhiteSpace == {" "}

Str(n, alphabet) == UNION {[1..k -> alphabet] : k \in 0..n}

RECURSIVE trimStart(_)
trimStart(s) ==
    IF s = <<>> THEN s
    ELSE IF Head(s) \in WhiteSpace THEN trimStart(Tail(s)) ELSE s

RECURSIVE trimEnd(_)
trimEnd(s) ==
    IF s = <<>> THEN s
    ELSE IF s[Len(s)] \in WhiteSpace THEN trimEnd(SubSeq(s, 1, Len(s) - 1)) ELSE s

\* a validator that tests the raw value instead of the trimmed one
trimNothing(s) == s

trim(s) == trimEnd(trimStart(s))

----------------------------------------------------------------------------
(* Theme Preference Store (the useTheme hook) *)

\* what localStorage.getItem returns for a key that is not set
NoItem == "(null)"

\* values the "theme-preference" key can hold before the hook first runs:
\* unset, the two values the hook writes, the empty string and a foreign one
StoredValues == {NoItem, "dark", "light", "", "blue"}

\* the two markers, and a class of the root element that is not a marker
Markers == {"dark", "light"}

RootClasses == Markers \cup {"page"}

\* localStorage for the session: usable, refusing writes (setItem throws),
\* or not accessible at all (getItem and setItem throw)
StorageModes == {"ok", "readonly", "blocked"}

getItemThrows == storageMode = "blocked"

setItemThrows == storageMode # "ok"

ThemeName(isDark) == IF isDark THEN "dark" ELSE "light"

\* a root that only ever gains markers
applyThemeToDOMAddOnly(cl, isDark) ==
    IF isDark THEN cl \cup {"dark"} ELSE cl \cup {"light"}

\* classList after applyThemeToDOM(isDark) on a root with classes cl
applyThemeToDOM(cl, isDark) ==
    IF isDark THEN (cl \cup {"dark"}) \ {"light"}
    ELSE (cl \cup {"light"}) \ {"dark"}

\* the three copies of the preference
Snapshot == [isDarkMode |-> isDarkMode, storage |-> storage, classList |-> classList]

\* the record of one call: whether it threw, how many storage writes it
\* completed, how many times it applied a marker, and the store before it
Called(op, raised, writes, applies) ==
    [op |-> op, raised |-> raised, writes |-> writes, applies |-> applies, pre |-> Snapshot]

NoCall ==
    [op |-> "none", raised |-> FALSE, writes |-> 0, applies |-> 0,
     pre |-> [isDarkMode |-> TRUE, storage |-> NoItem, classList |-> {}]]

\* a mount effect that persists the preference on every run
initializeAlwaysWrites ==
    /\ hook = "unmounted"
    /\ prevCall' = call
    /\ IF getItemThrows
       THEN /\ call' = Called("initialize", TRUE, 0, 0)
            /\ hook' = "crashed"
            /\ UNCHANGED <<isDarkMode, storage, classList>>
       ELSE LET isDark == IF storage # NoItem /\ storage # "" THEN storage = "dark" ELSE TRUE IN
            /\ isDarkMode' = isDark
            /\ classList' = applyThemeToDOM(classList, isDark)
            /\ IF setItemThrows
               THEN /\ call' = Called("initialize", TRUE, 0, 1)
                    /\ hook' = "crashed"
                    /\ UNCHANGED storage
               ELSE /\ storage' = ThemeName(isDark)
                    /\ call' = Called("initialize", FALSE, 1, 1)
                    /\ hook' = "mounted"
    /\ UNCHANGED <<storageMode, formData, errors, submission, requests, timers,
                   vName, vValue, vResult>>

\* the body of the mount effect
initialize ==
    /\ hook = "unmounted"
    /\ prevCall' = call
    /\ IF getItemThrows
       THEN /\ call' = Called("initialize", TRUE, 0, 0)
            /\ hook' = "crashed"
            /\ UNCHANGED <<isDarkMode, storage, classList>>
       ELSE IF storage # NoItem /\ storage # ""
       THEN /\ isDarkMode' = (storage = "dark")
            /\ classList' = applyThemeToDOM(classList, storage = "dark")
            /\ call' = Called("initialize", FALSE, 0, 1)
            /\ hook' = "mounted"
            /\ UNCHANGED storage
       ELSE /\ isDarkMode' = TRUE
            /\ classList' = applyThemeToDOM(classList, TRUE)
            /\ IF setItemThrows
               THEN /\ call' = Called("initialize", TRUE, 0, 1)
                    /\ hook' = "crashed"
                    /\ UNCHANGED storage
               ELSE /\ storage' = "dark"
                    /\ call' = Called("initialize", FALSE, 1, 1)
                    /\ hook' = "mounted"
    /\ UNCHANGED <<storageMode, formData, errors, submission, requests, timers,
                   vName, vValue, vResult>>

\* a toggle that persists the preference it is leaving
toggleThemePersistsOld ==
    LET newTheme == ~isDarkMode IN
    /\ hook = "mounted"
    /\ prevCall' = call
    /\ isDarkMode' = newTheme
    /\ classList' = applyThemeToDOM(classList, newTheme)
    /\ IF setItemThrows
       THEN /\ call' = Called("toggleTheme", TRUE, 0, 1)
            /\ UNCHANGED storage
       ELSE /\ storage' = ThemeName(isDarkMode)
            /\ call' = Called("toggleTheme", FALSE, 1, 1)
    /\ UNCHANGED <<hook, storageMode, formData, errors, submission, requests, timers,
                   vName, vValue, vResult>>

toggleTheme ==
    LET newTheme == ~isDarkMode IN
    /\ hook = "mounted"
    /\ prevCall' = call
    /\ isDarkMode' = newTheme
    /\ classList' = applyThemeToDOM(classList, newTheme)
    /\ IF setItemThrows
       THEN /\ call' = Called("toggleTheme", TRUE, 0, 1)
            /\ UNCHANGED storage
       ELSE /\ storage' = ThemeName(newTheme)
            /\ call' = Called("toggleTheme", FALSE, 1, 1)
    /\ UNCHANGED <<hook, storageMode, formData, errors, submission, requests, timers,
                   vName, vValue, vResult>>

\* a setter that does not persist the preference
setThemeNoPersist(theme) ==
    LET isDark == theme = "dark" IN
    /\ hook = "mounted"
    /\ prevCall' = call
    /\ isDarkMode' = isDark
    /\ classList' = applyThemeToDOM(classList, isDark)
    /\ call' = Called("setTheme", FALSE, 0, 1)
    /\ UNCHANGED storage
    /\ UNCHANGED <<hook, storageMode, formData, errors, submission, requests, timers,
                   vName, vValue, vResult>>

setTheme(theme) ==
    LET isDark == theme = "dark" IN
    /\ hook = "mounted"
    /\ prevCall' = call
    /\ isDarkMode' = isDark
    /\ classList' = applyThemeToDOM(classList, isDark)
    /\ IF setItemThrows
       THEN /\ call' = Called("setTheme", TRUE, 0, 1)
            /\ UNCHANGED storage
       ELSE /\ storage' = theme
            /\ call' = Called("setTheme", FALSE, 1, 1)
    /\ UNCHANGED <<hook, storageMode, formData, errors, submission, requests, timers,
                   vName, vValue, vResult>>

SetTheme == \E theme \in Markers : setTheme(theme)

InitTheme ==
    /\ isDarkMode = TRUE
    /\ storage \in StoredValues
    /\ classList \in SUBSET RootClasses
    /\ storageMode \in StorageModes
    /\ hook = "unmounted"
    /\ call = NoCall
    /\ prevCall = NoCall
    /\ formData = [name |-> <<>>, email |-> <<>>, subject |-> <<>>, message |-> <<>>]
    /\ errors = <<>>
    /\ submission = [status |-> "idle", message |-> ""]
    /\ requests = <<>>
    /\ timers = <<>>
    /\ vName = "name"
    /\ vValue = <<>>
    /\ vResult = "(not called)"

NextTheme ==
    \/ initialize
    \/ toggleTheme
    \/ SetTheme

SpecTheme == InitTheme /\ [][NextTheme]_vars

\* the theme store as it is before the hook is mounted, with nothing stored
ThemeAtRest ==
    /\ isDarkMode = TRUE
    /\ storage = NoItem
    /\ classList = {}
    /\ storageMode = "ok"
    /\ hook = "unmounted"
    /\ call = NoCall
    /\ prevCall = NoCall

----------------------------------------------------------------------------
(* Form Validator *)

FormKeys == <<"name", "email", "subject", "message">>

Fields == {FormKeys[i] : i \in 1..Len(FormKeys)}

\* the character class [^\s@]
NotSpaceNotAt(c) == c \notin WhiteSpace /\ c # "@"

\* /^[^\s@]+@[^\s@]+\.[^\s@]+$/ run on s from position i; q is the place in
\* the pattern: 0 before the local part, 1 inside it, 2 after '@', 3 inside
\* the domain, 4 after the '.', 5 inside the last part
RECURSIVE emailRegexFrom(_, _, _)
emailRegexFrom(s, i, q) ==
    IF i > Len(s) THEN q = 5
    ELSE LET c == s[i] IN
         CASE q = 0 -> NotSpaceNotAt(c) /\ emailRegexFrom(s, i + 1, 1)
           [] q = 1 -> \/ NotSpaceNotAt(c) /\ emailRegexFrom(s, i + 1, 1)
                       \/ c = "@" /\ emailRegexFrom(s, i + 1, 2)
           [] q = 2 -> NotSpaceNotAt(c) /\ emailRegexFrom(s, i + 1, 3)
           [] q = 3 -> \/ NotSpaceNotAt(c) /\ emailRegexFrom(s, i + 1, 3)
                       \/ c = "." /\ emailRegexFrom(s, i + 1, 4)
           [] q = 4 -> NotSpaceNotAt(c) /\ emailRegexFrom(s, i + 1, 5)
           [] OTHER -> NotSpaceNotAt(c) /\ emailRegexFrom(s, i + 1, 5)

\* a validator that tests the trimmed value against the pattern
emailRegexTrimmed(s) == emailRegexFrom(trimEnd(trimStart(s)), 1, 0)

emailRegex(s) == emailRegexFrom(s, 1, 0)

validateField(name, value) ==
    CASE name = "name" ->
           IF trim(value) = <<>> THEN "Name is required"
           ELSE IF Len(trim(value)) < 2 THEN "Name must be at least 2 characters"
           ELSE ""
      [] name = "email" ->
           IF trim(value) = <<>> THEN "Email is required"
           ELSE IF ~emailRegex(value) THEN "Please enter a valid email address"
           ELSE ""
      [] name = "subject" ->
           IF trim(value) = <<>> THEN "Subject is required"
           ELSE IF Len(trim(value)) < 3 THEN "Subject must be at least 3 characters"
           ELSE ""
      [] name = "message" ->
           IF trim(value) = <<>> THEN "Message is required"
           ELSE IF Len(trim(value)) < 10 THEN "Message must be at least 10 characters"
           ELSE ""
      [] OTHER -> ""

----------------------------------------------------------------------------
(* validateField applied to bounded inputs *)

TextAlphabet == {" ", "a"}

EmailAlphabet == {" ", "a", "@", "."}

AtBDotCo == <<"a", "@", "b", ".", "c", "o">>

TextValues == Str(MaxTextLen, TextAlphabet)

EmailValues == Str(MaxEmailLen, EmailAlphabet) \cup {AtBDotCo}

ValuesOf(name) == IF name = "email" THEN EmailValues ELSE TextValues

NotCalled == "(not called)"

InitValidator ==
    /\ vName \in Fields
    /\ vValue \in ValuesOf(vName)
    /\ vResult = NotCalled
    /\ formData = [name |-> <<>>, email |-> <<>>, subject |-> <<>>, message |-> <<>>]
    /\ errors = <<>>
    /\ submission = [status |-> "idle", message |-> ""]
    /\ requests = <<>>
    /\ timers = <<>>
    /\ ThemeAtRest

CallValidateField ==
    /\ vResult = NotCalled
    /\ vResult' = validateField(vName, vValue)
    /\ UNCHANGED <<vName, vValue>>

----------------------------------------------------------------------------
(* Form state *)

Rep(n, c) == [i \in 1..n |-> c]

EmptyForm == [name |-> <<>>, email |-> <<>>, subject |-> <<>>, message |-> <<>>]

\* the object {} of FormErrors: no key present
EmptyErrors == [f \in {} |-> ""]

Idle == [status |-> "idle", message |-> ""]

Loading == [status |-> "loading", message |-> ""]

Success ==
    [status |-> "success",
     message |-> "Thank you! Your message has been sent successfully. I'll get back to you soon."]

\* values a change event can carry, per field
InputValues(field) ==
    CASE field = "name" -> {<<>>, <<"a">>, <<"a", "a">>}
      [] field = "email" -> {<<>>, <<"a", "@", "a">>, AtBDotCo}
      [] field = "subject" -> {<<>>, Rep(2, "a"), Rep(3, "a")}
      [] OTHER -> {<<>>, Rep(9, "a"), Rep(10, "a")}

\* errors[field] is truthy
HasError(errs, field) == field \in DOMAIN errs /\ errs[field] # ""

\* { ...prev, [field]: value }
Spread(prev, field, value) ==
    [f \in DOMAIN prev \cup {field} |-> IF f = field THEN value ELSE prev[f]]

\* a loop that keeps only the last error found
RECURSIVE validateFormLoopLastOnly(_, _, _)
validateFormLoopLastOnly(fd, keys, acc) ==
    IF keys = <<>> THEN acc
    ELSE LET field == Head(keys)
             error == validateField(field, fd[field])
         IN  validateFormLoopLastOnly(fd, Tail(keys),
                 IF error # ""
                 THEN [newErrors |-> Spread(EmptyErrors, field, error), isValid |-> FALSE]
                 ELSE acc)

RECURSIVE validateFormLoop(_, _, _)
validateFormLoop(fd, keys, acc) ==
    IF keys = <<>> THEN acc
    ELSE LET field == Head(keys)
             error == validateField(field, fd[field])
         IN  validateFormLoop(fd, Tail(keys),
                 IF error # ""
                 THEN [newErrors |-> Spread(acc.newErrors, field, error), isValid |-> FALSE]
                 ELSE acc)

\* the map given to setErrors and the value returned
validateForm(fd) ==
    validateFormLoop(fd, FormKeys, [newErrors |-> EmptyErrors, isValid |-> TRUE])

\* a submit button that is never disabled
SubmitNeverDisabled == FALSE

\* disabled={submission.status === "loading"} on the submit button
SubmitDisabled == submission.status = "loading"

RemoveAt(seq, i) == SubSeq(seq, 1, i - 1) \o SubSeq(seq, i + 1, Len(seq))

Init ==
    /\ formData = EmptyForm
    /\ errors = EmptyErrors
    /\ submission = Idle
    /\ requests = <<>>
    /\ timers = <<>>
    /\ vName = "name"
    /\ vValue = <<>>
    /\ vResult = NotCalled
    /\ ThemeAtRest

\* a change handler that leaves the field's error in place
handleInputChangeKeepError(field, value) ==
    /\ formData' = Spread(formData, field, value)
    /\ errors' = errors
    /\ submission' = IF submission.status # "idle" THEN Idle ELSE submission
    /\ timers' = [i \in 1..Len(timers) |-> [timers[i] EXCEPT !.edited = TRUE]]
    /\ UNCHANGED <<requests, validatorVars, themeVars>>

\* a change handler that empties the whole error map
handleInputChangeClearAll(field, value) ==
    /\ formData' = Spread(formData, field, value)
    /\ errors' = IF HasError(errors, field) THEN EmptyErrors ELSE errors
    /\ submission' = IF submission.status # "idle" THEN Idle ELSE submission
    /\ timers' = [i \in 1..Len(timers) |-> [timers[i] EXCEPT !.edited = TRUE]]
    /\ UNCHANGED <<requests, validatorVars, themeVars>>

\* a change handler that leaves the submission message to the timer
handleInputChangeKeepStatus(field, value) ==
    /\ formData' = Spread(formData, field, value)
    /\ errors' = IF HasError(errors, field) THEN Spread(errors, field, "") ELSE errors
    /\ submission' = submission
    /\ timers' = [i \in 1..Len(timers) |-> [timers[i] EXCEPT !.edited = TRUE]]
    /\ UNCHANGED <<requests, validatorVars, themeVars>>

handleInputChange(field, value) ==
    /\ formData' = Spread(formData, field, value)
    /\ errors' = IF HasError(errors, field) THEN Spread(errors, field, "") ELSE errors
    /\ submission' = IF submission.status # "idle" THEN Idle ELSE submission
    /\ timers' = [i \in 1..Len(timers) |-> [timers[i] EXCEPT !.edited = TRUE]]
    /\ UNCHANGED <<requests, validatorVars, themeVars>>

\* a submit handler without the early return on a failed validation
handleSubmitNoReturn ==
    LET v == validateForm(formData) IN
    /\ errors' = v.newErrors
    /\ Len(requests) + Len(timers) < MaxOutstanding
    /\ submission' = Loading
    /\ requests' = Append(requests, [pc |-> "fetch", body |-> formData])
    /\ UNCHANGED <<formData, timers>>
    /\ UNCHANGED <<validatorVars, themeVars>>

\* handleSubmit up to the await of fetch
handleSubmit ==
    LET v == validateForm(formData) IN
    /\ errors' = v.newErrors
    /\ IF ~v.isValid
       THEN UNCHANGED <<formData, submission, requests, timers>>
       ELSE /\ Len(requests) + Len(timers) < MaxOutstanding
            /\ submission' = Loading
            /\ requests' = Append(requests, [pc |-> "fetch", body |-> formData])
            /\ UNCHANGED <<formData, timers>>
    /\ UNCHANGED <<validatorVars, themeVars>>

\* a click on the submit button, or Enter in a field: the form's submit event
\* is dispatched only when the submit button is not disabled
SubmitEvent ==
    IF SubmitDisabled THEN UNCHANGED vars ELSE handleSubmit

\* a success branch that does not clear the form
successBlockKeepForm(i) ==
    /\ submission' = Success
    /\ formData' = formData
    /\ errors' = EmptyErrors
    /\ timers' = Append(timers, [edited |-> FALSE])
    /\ requests' = RemoveAt(requests, i)
    /\ UNCHANGED <<validatorVars, themeVars>>

\* the statements of the response.ok branch
successBlock(i) ==
    /\ submission' = Success
    /\ formData' = EmptyForm
    /\ errors' = EmptyErrors
    /\ timers' = Append(timers, [edited |-> FALSE])
    /\ requests' = RemoveAt(requests, i)
    /\ UNCHANGED <<validatorVars, themeVars>>

\* a catch block that reports the failure and keeps the form
catchBlockReportsError(i) ==
    /\ submission' = [status |-> "error", message |-> "Failed to send message"]
    /\ requests' = RemoveAt(requests, i)
    /\ UNCHANGED <<formData, errors, timers, validatorVars, themeVars>>

\* the statements of the catch block
catchBlock(i) ==
    /\ submission' = Success
    /\ formData' = EmptyForm
    /\ errors' = EmptyErrors
    /\ timers' = Append(timers, [edited |-> FALSE])
    /\ requests' = RemoveAt(requests, i)
    /\ UNCHANGED <<validatorVars, themeVars>>

fetchResolvedOk(i) ==
    /\ requests[i].pc = "fetch"
    /\ successBlock(i)

\* response.ok is false: the handler awaits response.json()
fetchResolvedNotOk(i) ==
    /\ requests[i].pc = "fetch"
    /\ requests' = [requests EXCEPT ![i].pc = "json"]
    /\ UNCHANGED <<formData, errors, submission, timers, validatorVars, themeVars>>

fetchRejected(i) ==
    /\ requests[i].pc = "fetch"
    /\ catchBlock(i)

\* response.json() resolves: throw new Error(...), caught by the catch block
jsonResolved(i) ==
    /\ requests[i].pc = "json"
    /\ catchBlock(i)

\* response.json() rejects (the failure body is not JSON)
jsonRejected(i) ==
    /\ requests[i].pc = "json"
    /\ catchBlock(i)

\* a timer callback that leaves the message displayed
timerFiredKeepsMessage ==
    /\ timers # <<>>
    /\ submission' = submission
    /\ timers' = Tail(timers)
    /\ UNCHANGED <<formData, errors, requests, validatorVars, themeVars>>

\* the callback given to setTimeout(..., 5000); equal delays fire in order
timerFired ==
    /\ timers # <<>>
    /\ submission' = Idle
    /\ timers' = Tail(timers)
    /\ UNCHANGED <<formData, errors, requests, validatorVars, themeVars>>

InputChange == \E field \in Fields : \E value \in InputValues(field) : handleInputChange(field, value)

FetchOk == \E i \in 1..Len(requests) : fetchResolvedOk(i)

FetchNotOk == \E i \in 1..Len(requests) : fetchResolvedNotOk(i)

FetchRejected == \E i \in 1..Len(requests) : fetchRejected(i)

JsonResolved == \E i \in 1..Len(requests) : jsonResolved(i)

JsonRejected == \E i \in 1..Len(requests) : jsonRejected(i)

Next ==
    \/ InputChange
    \/ SubmitEvent
    \/ FetchOk
    \/ FetchNotOk
    \/ FetchRejected
    \/ JsonResolved
    \/ JsonRejected
    \/ timerFired

Spec == Init /\ [][Next]_vars

\* the fetch promise of some pending request settles
FetchSettles == FetchOk \/ FetchNotOk \/ FetchRejected

\* the response.json() promise of some pending request settles
JsonSettles == JsonResolved \/ JsonRejected

\* every promise eventually settles and every timer eventually fires; no
\* user event is ever required to happen
SpecLive ==
    Init /\ [][Next]_vars
         /\ WF_vars(FetchSettles) /\ WF_vars(JsonSettles) /\ WF_vars(timerFired)

NextValidator == CallValidateField /\ UNCHANGED <<formVars, themeVars>>

SpecValidator == InitValidator /\ [][NextValidator]_vars

----------------------------------------------------------------------------
(* Properties *)

\* the value is empty or made of whitespace only
IsBlank(s) == \A i \in 1..Len(s) : s[i] \in WhiteSpace

\* number of characters from the first to the last non-whitespace character
TrimmedLen(s) ==
    LET idx == {i \in 1..Len(s) : s[i] \notin WhiteSpace} IN
    IF idx = {} THEN 0
    ELSE (CHOOSE i \in idx : \A j \in idx : j <= i) - (CHOOSE i \in idx : \A j \in idx : i <= j) + 1

RequiredMessage(name) ==
    CASE name = "name" -> "Name is required"
      [] name = "email" -> "Email is required"
      [] name = "subject" -> "Subject is required"
      [] OTHER -> "Message is required"

LengthMessage(name) ==
    CASE name = "name" -> "Name must be at least 2 characters"
      [] name = "subject" -> "Subject must be at least 3 characters"
      [] OTHER -> "Message must be at least 10 characters"

MinLength(name) ==
    CASE name = "name" -> 2
      [] name = "subject" -> 3
      [] OTHER -> 10

\* local@domain.tld: an '@' at i and a '.' at j > i + 1, at least one
\* character before i and after j, and no whitespace and no other '@'
LocalAtDomainDotTld(s) ==
    \E i, j \in 1..Len(s) :
        /\ 1 < i /\ i + 1 < j /\ j < Len(s)
        /\ s[i] = "@"
        /\ s[j] = "."
        /\ \A k \in 1..Len(s) : s[k] \notin WhiteSpace /\ (s[k] = "@" => k = i)

\* the fields whose current value fails validateField
FailingFields(fd) == {f \in Fields : validateField(f, fd[f]) # ""}

\* the sparse map of the failing fields and their messages
ErrorsOf(fd) == [f \in FailingFields(fd) |-> validateField(f, fd[f])]

\* a request has left the handler through a failure: the call rejected, or
\* the response was not OK and its body was read or could not be read
RequestFailed == FetchRejected \/ JsonResolved \/ JsonRejected

\* C1: whenever a request issued by handleSubmit is outstanding, the status is
\* 'loading' and the submit button is disabled, and there is never more than
\* one outstanding request.
C1_SingleOutstandingRequest ==
    /\ Len(requests) <= 1
    /\ requests # <<>> => submission.status = "loading" /\ SubmitDisabled

\* C2: a submit event while the status is 'loading' issues no request and
\* leaves the form data, the error map and the submission state unchanged.
C2_SubmitWhileLoadingIsNoOp ==
    [][(submission.status = "loading" /\ SubmitEvent)
         => UNCHANGED <<formData, errors, submission, requests, timers>>]_vars

C2_Witness ==
    /\ submission.status = "loading"
    /\ SubmitDisabled
    /\ Len(requests) = 1
    /\ FailingFields(formData) = {}

\* C3: when a request fails, the status becomes 'error' with a non-empty
\* message and the four fields keep their values.
C3_FailureShowsError ==
    [][RequestFailed
         => /\ submission'.status = "error"
            /\ submission'.message # ""
            /\ formData' = formData]_vars

\* C4: a timer whose submission was followed by a field edit changes nothing
\* when it fires: form data, error map and submission state stay as they are.
C4_SupersededTimerIsInert ==
    [][(timerFired /\ Head(timers).edited)
         => UNCHANGED <<formData, errors, submission>>]_vars

\* C5: a field with a displayed (non-empty) error has a current value that
\* fails validateField.
C5_NoStaleError ==
    \A f \in Fields : HasError(errors, f) => validateField(f, formData[f]) # ""

\* one field still shows its error while another one was corrected and cleared
C5_Witness ==
    \E f, g \in Fields :
        /\ HasError(errors, f)
        /\ g \in DOMAIN errors /\ errors[g] = ""
        /\ validateField(g, formData[g]) = ""

\* C6: the step in which a request resolves with an OK response leaves all
\* four fields empty and the error map empty, whatever they held before.
C6_SuccessClearsForm ==
    [][FetchOk => formData' = EmptyForm /\ errors' = EmptyErrors]_vars

\* success reached while a second request, submitted after an edit made
\* during the first one, is still pending
C6_Witness ==
    /\ submission.status = "success"
    /\ formData = EmptyForm
    /\ errors = EmptyErrors
    /\ timers # <<>>
    /\ requests # <<>>

\* C7: a submit on a form with an invalid field changes neither the submission
\* state nor the form data, issues no request and replaces the error map by
\* the map of the invalid fields; the status becomes 'loading' only on a form
\* whose four fields are valid, together with one new request.
C7_InvalidSubmitStaysPut ==
    [][/\ (handleSubmit /\ FailingFields(formData) # {})
            => /\ UNCHANGED <<submission, formData, requests, timers>>
               /\ errors' = ErrorsOf(formData)
       /\ (submission'.status = "loading" /\ submission.status # "loading")
            => /\ FailingFields(formData) = {}
               /\ Len(requests') = Len(requests) + 1]_vars

\* an invalid submit made while the success message was displayed
C7_Witness ==
    /\ submission.status = "success"
    /\ formData = EmptyForm
    /\ errors = ErrorsOf(formData)
    /\ Cardinality(DOMAIN errors) = 4

\* C8: validateForm returns true exactly when no field fails validateField,
\* and the map it gives to setErrors has exactly the failing fields as keys,
\* each with its message; handleSubmit installs that map in one step.
C8_ValidateFormExact ==
    /\ [](/\ validateForm(formData).isValid = (FailingFields(formData) = {})
          /\ validateForm(formData).newErrors = ErrorsOf(formData))
    /\ [][handleSubmit => errors' = ErrorsOf(formData)]_vars

\* validateForm has reported some, but not all, of the fields
C8_Witness ==
    /\ errors = ErrorsOf(formData)
    /\ Cardinality(DOMAIN errors) \in {2, 3}
    /\ \A f \in DOMAIN errors : errors[f] # ""

\* C9: for name, subject and message, validateField returns the 'required'
\* message on an empty or whitespace-only value, else the length message when
\* the trimmed value is shorter than 2, 3 and 10 characters, else no error.
C9_TextFieldRules ==
    (vResult # NotCalled /\ vName \in {"name", "subject", "message"})
        => vResult = IF IsBlank(vValue) THEN RequiredMessage(vName)
                     ELSE IF TrimmedLen(vValue) < MinLength(vName) THEN LengthMessage(vName)
                     ELSE ""

\* a message of 10 characters or more that is too short once trimmed
C9_Witness ==
    /\ vName = "message"
    /\ Len(vValue) >= 10
    /\ vResult = "Message must be at least 10 characters"

\* C10: for email, validateField returns 'Email is required' on an empty or
\* whitespace-only value, else the format message when the value is not of
\* the form local@domain.tld, else no error; 'a@b.co' passes.
C10_EmailRules ==
    (vResult # NotCalled /\ vName = "email")
        => /\ vResult = IF IsBlank(vValue) THEN "Email is required"
                        ELSE IF ~LocalAtDomainDotTld(vValue)
                             THEN "Please enter a valid email address"
                        ELSE ""
           /\ vValue = AtBDotCo => vResult = ""

C10_Witness ==
    /\ vName = "email"
    /\ vValue = AtBDotCo
    /\ vResult = ""

\* C11: an edit of a field that has an error leaves that field without a
\* displayed error, and leaves every other field's error entry and every other
\* field's value as they were.
C11_EditClearsOnlyOwnError ==
    [][\A f \in Fields : \A v \in InputValues(f) :
         (handleInputChange(f, v) /\ HasError(errors, f))
            => /\ ~HasError(errors', f)
               /\ \A g \in Fields \ {f} :
                    /\ (g \in DOMAIN errors') = (g \in DOMAIN errors)
                    /\ g \in DOMAIN errors => errors'[g] = errors[g]
                    /\ formData'[g] = formData[g]]_vars

\* a field was edited to a value that is still invalid: its error is blanked
\* while the error of another field is still displayed
C11_Witness ==
    \E f, g \in Fields :
        /\ f \in DOMAIN errors /\ errors[f] = ""
        /\ validateField(f, formData[f]) # ""
        /\ HasError(errors, g)

\* C12: an edit made while the status is loading, success or error sets the
\* submission state to idle with an empty message in the same step; an edit
\* made while the status is idle leaves the submission state unchanged.
C12_EditResetsStatus ==
    [][InputChange
         => /\ submission.status # "idle" => submission' = [status |-> "idle", message |-> ""]
            /\ submission.status = "idle" => submission' = submission]_vars

\* the status is idle although the success timer has not fired yet
C12_Witness ==
    /\ submission.status = "idle"
    /\ submission.message = ""
    /\ timers # <<>>
    /\ timers[1].edited

\* the markers the root carries
RootMarkers == classList \cap Markers

\* C13: a mount effect whose storage accesses succeed, run with nothing
\* persisted, leaves the flag dark, the dark marker alone on the root and
\* "dark" written under the key; run with "dark" or "light" persisted, it sets
\* the flag and the marker to that preference and writes nothing.
C13_InitializeDefaultsToDark ==
    (call.op = "initialize" /\ ~call.raised)
        => /\ call.pre.storage = NoItem
                => /\ isDarkMode
                   /\ RootMarkers = {"dark"}
                   /\ storage = "dark"
                   /\ call.writes = 1
           /\ call.pre.storage \in Markers
                => /\ isDarkMode = (call.pre.storage = "dark")
                   /\ RootMarkers = {call.pre.storage}
                   /\ storage = call.pre.storage
                   /\ call.writes = 0

\* first run on a root that carried the light marker
C13_Witness ==
    /\ call.op = "initialize"
    /\ call.pre.storage = NoItem
    /\ "light" \in call.pre.classList
    /\ storage = "dark"
    /\ call.writes = 1
    /\ RootMarkers = {"dark"}

C15_ExactlyOneMarker ==
    /\ \A isDark \in BOOLEAN :
         /\ applyThemeToDOM(classList, isDark) \cap Markers = {ThemeName(isDark)}
         /\ applyThemeToDOM(applyThemeToDOM(classList, isDark), isDark)
              = applyThemeToDOM(classList, isDark)
    /\ hook = "mounted" => Cardinality(RootMarkers) = 1

\* the effect ran on a root that carried both markers
C15_Witness ==
    /\ hook = "mounted"
    /\ call.op = "initialize"
    /\ call.pre.classList \cap Markers = Markers
    /\ RootMarkers = {"light"}

\* C16: no call of initialize, toggleTheme or setTheme raises an error, the
\* hook stays usable, and the root marker matches the in-memory preference.
C16_StorageFailureIsNonFatal ==
    call.op # "none"
        => /\ ~call.raised
           /\ hook = "mounted"
           /\ RootMarkers = {ThemeName(isDarkMode)}

\* C19: when the storage accesses succeed, after a mount effect that found
\* nothing, "dark" or "light" persisted, and after every toggleTheme or
\* setTheme, the flag is dark exactly when the persisted value is "dark" and
\* exactly when the root carries the dark marker (and never the two markers);
\* each toggleTheme or setTheme makes one storage write and one application.
C19_ThreeCopiesAgree ==
    LET Agree == /\ isDarkMode = (storage = "dark")
                 /\ isDarkMode = ("dark" \in classList)
                 /\ storage \in Markers
                 /\ Cardinality(RootMarkers) = 1
    IN  /\ (call.op = "initialize" /\ ~call.raised
              /\ call.pre.storage \in {NoItem, "dark", "light"}) => Agree
        /\ (call.op \in {"toggleTheme", "setTheme"} /\ ~call.raised)
              => Agree /\ call.writes = 1 /\ call.applies = 1

\* setTheme("light") after a toggle to dark
C19_Witness ==
    /\ call.op = "setTheme" /\ ~call.raised
    /\ prevCall.op = "toggleTheme"
    /\ call.pre.isDarkMode
    /\ ~isDarkMode
    /\ storage = "light"
    /\ RootMarkers = {"light"}

\* C17: once a request has been issued, the status eventually is 'success'
\* with the thank-you message, whatever the response and whatever is
\* interleaved; the status is never 'error'.
C17_EverySubmitEndsInSuccess ==
    /\ requests # <<>> ~> submission = Success
    /\ [](submission.status # "error")

\* the success message is displayed while a non-OK response is being read
C17_Witness ==
    /\ submission = Success
    /\ \E i \in 1..Len(requests) : requests[i].pc = "json"

\* C18: a status of 'success' is eventually followed by the idle state with an
\* empty message, with no user event required.
C18_SuccessReturnsToIdle ==
    submission.status = "success" ~> submission = Idle

\* a timer fired after a success that no edit followed: the status is idle
\* while the timer of that success is still pending and unedited
C18_Witness ==
    /\ submission = Idle
    /\ formData = EmptyForm
    /\ timers # <<>>
    /\ ~timers[Len(timers)].edited

====
